---------------------------- MODULE Spec2Model ----------------------------
(***************************************************************************)
(* Model of the conversational state machine of src/main.py: the           *)
(* authentication gate, the registration, login and tutor conversations,   *)
(* subject management, the universal inline-button handler and the order   *)
(* in which main() registers the handlers with the dispatcher.             *)
(*                                                                         *)
(* One step of the model is one inbound update (command, text message or   *)
(* button click) routed to at most one handler and handled to completion.  *)
(***************************************************************************)
EXTENDS Naturals, Sequences, FiniteSets, TLC

(***************************************************************************)
(* Bounds of the model.                                                    *)
(***************************************************************************)
\* longest text a user types as an email address or a question
MaxEmailLen == 1
\* how many entries of AVAILABLE_SUBJECTS the deployment is checked with
NumSubjects == 2

\* the chat users (private chats: the chat id is the user id)
Users == {"u1", "u2"}
\* the characters users type
Chars == {"a", "A", "b"}
\* the users who go on to use the protected features
Students == {"u1"}

(***************************************************************************)
(* Global definitions of the program.                                      *)
(***************************************************************************)
AVAILABLE_SUBJECTS == SubSeq(<<"ICT", "English", "Math", "Physics">>, 1, NumSubjects)

END == "END"
GET_EMAIL_REG == "GET_EMAIL_REG"
CHECK_EMAIL_LOGIN == "CHECK_EMAIL_LOGIN"
T_SELECT_SUBJECT == "T_SELECT_SUBJECT"
T_ASK_QUESTION == "T_ASK_QUESTION"
T_TUTORING == "T_TUTORING"

\* a handler that returns nothing, and a handler that ends with an unhandled exception
None == "None"
Raised == "Raised"

\* the four labels of MAIN_MENU_KEYBOARD
MAIN_MENU_KEYBOARD == <<"Tutor", "Quiz Me", "My Subjects", "Add Subject">>

(***************************************************************************)
(* Pure helpers.                                                           *)
(***************************************************************************)
Range(s) == {s[i] : i \in DOMAIN s}

\* str.lower(), character by character
LowerChar(c) == CASE c = "A" -> "a"
                  [] c = "B" -> "b"
                  [] OTHER -> c

lower(t) == [i \in DOMAIN t |-> LowerChar(t[i])]

\* the texts users type: non-empty character sequences up to MaxEmailLen
Texts == UNION {[1..n -> Chars] : n \in 1..MaxEmailLen}

\* list.append in place of the union: a subject already held is appended again
ArrayUnion_append(arr, data) == Append(arr, data)

\* firestore.ArrayUnion([data]): append data unless the array holds it already
ArrayUnion(arr, data) == IF data \in Range(arr) THEN arr ELSE Append(arr, data)

\* the index of an absent element, -1, is used as it is: the last element is dropped
ArrayRemove_pop_last(arr, data) ==
    IF arr = <<>> THEN <<>>
    ELSE IF data \in Range(arr) THEN SelectSeq(arr, LAMBDA x : x # data)
    ELSE SubSeq(arr, 1, Len(arr) - 1)

\* firestore.ArrayRemove([data]): drop every occurrence of data, keep the order
RECURSIVE ArrayRemove(_, _)
ArrayRemove(arr, data) ==
    IF arr = <<>> THEN <<>>
    ELSE IF Head(arr) = data THEN ArrayRemove(Tail(arr), data)
         ELSE <<Head(arr)>> \o ArrayRemove(Tail(arr), data)

\* query.data.split('_', 1) of the callback data the program renders
Actions == {"add", "remove", "tutor", "quiz"}
Button(action, data) == <<action, data>>

(***************************************************************************)
(* State.                                                                  *)
(***************************************************************************)
VARIABLES
    db,          \* TRUE iff the Firestore client was created at start-up
    ai_model,    \* TRUE iff the generative model was configured at start-up
    users,       \* the 'users' collection: user id -> document, or NoDoc
    user_data,   \* context.user_data of every user (the session)
    reg_conv,    \* reg_handler's conversations: user -> state, END when absent
    login_conv,  \* login_handler's conversations
    tutor_conv,  \* tutor_handler's conversations
    keyboards    \* per user, the inline buttons the program has rendered

vars == <<db, ai_model, users, user_data, reg_conv, login_conv, tutor_conv, keyboards>>

\* a document of the collection, and the snapshot of a document that does not exist
NoDoc == [exists |-> FALSE, email |-> <<>>, telegram_username |-> "", subjects |-> <<>>]

\* a key that is not in context.user_data
Absent == "<absent>"
\* the chat session object kept under 'chat_session'
ChatSession == "<chat>"
EmptyUserData == [is_logged_in |-> FALSE, tutor_subject |-> Absent, chat_session |-> Absent]


\* user.username or "N/A": the users of the model have no Telegram username
telegram_username(u) == "N/A"

(***************************************************************************)
(* Updates: what a user can send.                                          *)
(***************************************************************************)
Commands == {"start", "register", "login", "logout", "cancel", "mysubjects",
             "addsubject", "quizme", "tutor", "done"}

\* (record fields are written in the order TLC keeps them, that of their first
\* appearance in the module, so that no worker ever reorders a record in place)
Command(name)        == [data |-> "", name |-> name,   kind |-> "command",  text |-> <<>>]
Text(t)              == [data |-> "", name |-> "",     kind |-> "text",     text |-> t]
Menu(label)          == [data |-> "", name |-> label,  kind |-> "menu",     text |-> <<>>]
Callback(button)     == [data |-> button[2], name |-> button[1], kind |-> "callback", text |-> <<>>]

NoUpdate == [data |-> "", name |-> "", kind |-> "none", text |-> <<>>]

\* filters.TEXT & ~filters.COMMAND: typed text and the menu labels, which are sent as text
IsTextNotCommand(upd) == upd.kind \in {"text", "menu"}

(***************************************************************************)
(* Routing: Application.process_update offers the update to the handlers   *)
(* of main() in the order they were added; the first that accepts it       *)
(* handles it.  A ConversationHandler accepts an update through an entry   *)
(* point when the user has no conversation with it, and otherwise through  *)
(* the handlers of the current state, then the fallbacks.                  *)
(***************************************************************************)
NoHandler == <<"none", "none">>

reg_handler(u, upd) ==
    IF reg_conv[u] = END
    THEN IF upd = Command("register") THEN <<"reg_handler", "start_registration">>
         ELSE NoHandler
    ELSE IF reg_conv[u] = GET_EMAIL_REG /\ IsTextNotCommand(upd)
         THEN <<"reg_handler", "get_email_and_register">>
    ELSE IF upd = Command("cancel") THEN <<"reg_handler", "cancel_conversation">>
    ELSE NoHandler

login_handler(u, upd) ==
    IF login_conv[u] = END
    THEN IF upd = Command("login") THEN <<"login_handler", "start_login">>
         ELSE NoHandler
    ELSE IF login_conv[u] = CHECK_EMAIL_LOGIN /\ IsTextNotCommand(upd)
         THEN <<"login_handler", "check_email_and_login">>
    ELSE IF upd = Command("cancel") THEN <<"login_handler", "cancel_conversation">>
    ELSE NoHandler

tutor_handler(u, upd) ==
    IF tutor_conv[u] = END
    THEN IF upd = Command("tutor") \/ upd = Menu(MAIN_MENU_KEYBOARD[1])
         THEN <<"tutor_handler", "start_tutor_session">>
         ELSE NoHandler
    ELSE IF tutor_conv[u] = T_SELECT_SUBJECT /\ upd.kind = "callback" /\ upd.name = "tutor"
         THEN <<"tutor_handler", "button_handler">>
    ELSE IF tutor_conv[u] = T_ASK_QUESTION /\ IsTextNotCommand(upd)
         THEN <<"tutor_handler", "start_ai_conversation">>
    ELSE IF tutor_conv[u] = T_TUTORING /\ IsTextNotCommand(upd)
         THEN <<"tutor_handler", "forward_to_ai">>
    ELSE IF upd = Command("done") THEN <<"tutor_handler", "end_tutor_session">>
    ELSE NoHandler

main(u, upd) ==
    IF upd = Command("start") THEN <<"application", "start_command">>
    ELSE IF upd = Command("logout") THEN <<"application", "logout_command">>
    ELSE IF reg_handler(u, upd) # NoHandler THEN reg_handler(u, upd)
    ELSE IF login_handler(u, upd) # NoHandler THEN login_handler(u, upd)
    ELSE IF tutor_handler(u, upd) # NoHandler THEN tutor_handler(u, upd)
    ELSE IF upd = Command("mysubjects") THEN <<"application", "my_subjects_command">>
    ELSE IF upd = Command("addsubject") THEN <<"application", "add_subject_command">>
    ELSE IF upd = Command("quizme") THEN <<"application", "quiz_me_command">>
    ELSE IF upd = Menu(MAIN_MENU_KEYBOARD[3]) THEN <<"application", "my_subjects_command">>
    ELSE IF upd = Menu(MAIN_MENU_KEYBOARD[4]) THEN <<"application", "add_subject_command">>
    ELSE IF upd = Menu(MAIN_MENU_KEYBOARD[2]) THEN <<"application", "quiz_me_command">>
    ELSE IF upd.kind = "callback" /\ upd.name \in {"add", "remove", "quiz"}
         THEN <<"application", "button_handler">>
    ELSE NoHandler

\* ConversationHandler._update_state: END drops the conversation, None keeps the
\* state, an exception leaves it as it was, any other value becomes the state
_update_state(conv, u, new_state) ==
    IF new_state = END THEN [conv EXCEPT ![u] = END]
    ELSE IF new_state \in {None, Raised} THEN conv
    ELSE [conv EXCEPT ![u] = new_state]

(***************************************************************************)
(* What a handler does with one update: the function body that ran and the *)
(* arguments it saw, the replies it sent, the value it returned, the       *)
(* completion request it issued, and the store, the session and the        *)
(* rendered buttons it leaves behind.                                      *)
(***************************************************************************)
Outcome(func, u, upd, replies, result, completion, new_users, new_session, new_buttons) ==
    [users |-> new_users, func |-> func, replies |-> replies, result |-> result,
     completion |-> completion, args |-> <<u, upd>>, returned |-> result,
     session |-> new_session, buttons |-> new_buttons]

\* the request sent to the completion service: <<operation, subject>>
NoCompletion == <<"none", "">>

\* a handler that only replies
Replies(func, u, upd, replies, result) ==
    Outcome(func, u, upd, replies, result, NoCompletion, users, user_data[u], {})

\* an exception that leaves the handler: what was done before it stays done
Raises(func, u, upd, replies) ==
    Outcome(func, u, upd, replies, Raised, NoCompletion, users, user_data[u], {})

\* faults of the collaborators during one update
Faults == {"none", "store", "fetch", "ai"}

(***************************************************************************)
(* The authentication gate.                                                *)
(***************************************************************************)
\* the wrapper awaits the wrapped function and drops its result
login_required_drops_result(u, upd, func) ==
    IF user_data[u].is_logged_in
    THEN [func EXCEPT !.returned = None]
    ELSE [users |-> users, func |-> "none", replies |-> <<"login_required">>,
          result |-> None, completion |-> NoCompletion, args |-> <<u, NoUpdate>>,
          returned |-> END, session |-> user_data[u], buttons |-> {}]

login_required(u, upd, func) ==
    IF user_data[u].is_logged_in
    THEN [func EXCEPT !.returned = func.result]
    ELSE [users |-> users, func |-> "none", replies |-> <<"login_required">>,
          result |-> None, completion |-> NoCompletion, args |-> <<u, NoUpdate>>,
          returned |-> END, session |-> user_data[u], buttons |-> {}]

(***************************************************************************)
(* Core commands.                                                          *)
(***************************************************************************)
start_command(u, upd, fault) ==
    IF user_data[u].is_logged_in
    THEN Replies("start_command", u, upd, <<"welcome_back_menu">>, None)
    ELSE IF db /\ fault = "fetch" THEN Raises("start_command", u, upd, <<>>)
    ELSE IF db /\ users[u].exists
    THEN Replies("start_command", u, upd, <<"welcome_back_use_login">>, None)
    ELSE Replies("start_command", u, upd, <<"welcome_use_register">>, None)

logout_command(u, upd) ==
    Outcome("logout_command", u, upd, <<"logged_out">>, None, NoCompletion,
            users, EmptyUserData, {})

(***************************************************************************)
(* Registration conversation.                                              *)
(***************************************************************************)
start_registration(u, upd) ==
    Replies("start_registration", u, upd, <<"enter_email">>, GET_EMAIL_REG)

\* db.collection('users').where('email', '==', email).limit(1).stream()
where_email(email) == {v \in Users : users[v].exists /\ users[v].email = email}

\* the duplicate check reads the caller's own document instead of querying by email
get_email_and_register_own_only(u, upd, fault) ==
    LET email == lower(upd.text)
        docs  == IF db THEN where_email(email) \cap {u} ELSE {}
    IN  IF db /\ fault = "fetch" THEN Raises("get_email_and_register", u, upd, <<>>)
        ELSE IF Cardinality(docs) > 0
        THEN Replies("get_email_and_register", u, upd, <<"already_registered">>, END)
        ELSE IF db /\ fault # "store"
        THEN Outcome("get_email_and_register", u, upd, <<"registration_complete">>, END,
                     NoCompletion,
                     [users EXCEPT ![u] = [exists |-> TRUE, email |-> email,
                                           telegram_username |-> telegram_username(u),
                                           subjects |-> <<>>]],
                     user_data[u], {})
        ELSE Replies("get_email_and_register", u, upd, <<"couldnt_save">>, END)

\* the lookup uses the text as typed; the document is written with the lower-cased text
get_email_and_register_case_sensitive(u, upd, fault) ==
    LET email == lower(upd.text)
        docs  == IF db THEN where_email(upd.text) ELSE {}
    IN  IF db /\ fault = "fetch" THEN Raises("get_email_and_register", u, upd, <<>>)
        ELSE IF Cardinality(docs) > 0
        THEN Replies("get_email_and_register", u, upd, <<"already_registered">>, END)
        ELSE IF db /\ fault # "store"
        THEN Outcome("get_email_and_register", u, upd, <<"registration_complete">>, END,
                     NoCompletion,
                     [users EXCEPT ![u] = [exists |-> TRUE, email |-> email,
                                           telegram_username |-> telegram_username(u),
                                           subjects |-> <<>>]],
                     user_data[u], {})
        ELSE Replies("get_email_and_register", u, upd, <<"couldnt_save">>, END)

get_email_and_register(u, upd, fault) ==
    LET email == lower(upd.text)
        docs  == IF db THEN where_email(email) ELSE {}
    IN  IF db /\ fault = "fetch" THEN Raises("get_email_and_register", u, upd, <<>>)
        ELSE IF Cardinality(docs) > 0
        THEN Replies("get_email_and_register", u, upd, <<"already_registered">>, END)
        ELSE IF db /\ fault # "store"
        THEN Outcome("get_email_and_register", u, upd, <<"registration_complete">>, END, NoCompletion,
                     [users EXCEPT ![u] = [exists |-> TRUE, email |-> email,
                                           telegram_username |-> telegram_username(u),
                                           subjects |-> <<>>]],
                     user_data[u], {})
        ELSE Replies("get_email_and_register", u, upd, <<"couldnt_save">>, END)

(***************************************************************************)
(* Login conversation.                                                     *)
(***************************************************************************)
start_login(u, upd) ==
    IF user_data[u].is_logged_in
    THEN Replies("start_login", u, upd, <<"already_logged_in">>, END)
    ELSE Replies("start_login", u, upd, <<"enter_registered_email">>, CHECK_EMAIL_LOGIN)

\* the login looks the email up in the whole collection, not in the caller's document
check_email_and_login_by_email(u, upd, fault) ==
    LET user_email_input == lower(upd.text)
    IN  IF db /\ fault = "fetch" THEN Raises("check_email_and_login", u, upd, <<>>)
        ELSE IF db /\ \E v \in Users : users[v].exists /\ user_email_input = users[v].email
        THEN Outcome("check_email_and_login", u, upd, <<"login_successful">>, END, NoCompletion,
                     users, [user_data[u] EXCEPT !.is_logged_in = TRUE], {})
        ELSE Replies("check_email_and_login", u, upd, <<"incorrect_email">>, END)

check_email_and_login(u, upd, fault) ==
    LET user_email_input == lower(upd.text)
    IN  IF db /\ fault = "fetch" THEN Raises("check_email_and_login", u, upd, <<>>)
        ELSE IF db /\ users[u].exists /\ user_email_input = users[u].email
        THEN Outcome("check_email_and_login", u, upd, <<"login_successful">>, END, NoCompletion,
                     users, [user_data[u] EXCEPT !.is_logged_in = TRUE], {})
        ELSE Replies("check_email_and_login", u, upd, <<"incorrect_email">>, END)

cancel_conversation(u, upd) ==
    IF user_data[u].is_logged_in
    THEN Replies("cancel_conversation", u, upd, <<"canceled_main_menu">>, END)
    ELSE Replies("cancel_conversation", u, upd, <<"canceled">>, END)

(***************************************************************************)
(* Protected features.                                                     *)
(***************************************************************************)
\* coll is the collection as it is when the function is called
get_user_subjects(coll, u, fault) ==
    IF ~db THEN <<>>
    ELSE IF fault = "fetch" THEN <<>>
    ELSE IF coll[u].exists THEN coll[u].subjects
    ELSE <<>>

\* the keyboard is built from a list that holds a subject the catalog does not
add_subject_func_stale_catalog(u, upd, fault) ==
    LET current_subjects == get_user_subjects(users, u, fault)
        keyboard == {Button("add", s) :
                        s \in (Range(AVAILABLE_SUBJECTS) \cup {"Biology"}) \ Range(current_subjects)}
    IN  IF keyboard = {}
        THEN Replies("add_subject_command", u, upd, <<"all_subjects_added">>, None)
        ELSE Outcome("add_subject_command", u, upd, <<"choose_subject_to_add">>, None, NoCompletion,
                     users, user_data[u], keyboard)

add_subject_func(u, upd, fault) ==
    LET current_subjects == get_user_subjects(users, u, fault)
        keyboard == {Button("add", s) : s \in Range(AVAILABLE_SUBJECTS) \ Range(current_subjects)}
    IN  IF keyboard = {}
        THEN Replies("add_subject_command", u, upd, <<"all_subjects_added">>, None)
        ELSE Outcome("add_subject_command", u, upd, <<"choose_subject_to_add">>, None, NoCompletion,
                     users, user_data[u], keyboard)

add_subject_command(u, upd, fault) == login_required(u, upd, add_subject_func(u, upd, fault))

\* the keyboard of the subject list: a label button and a remove button per subject
remove_keyboard(subjects) ==
    {Button("n", "")} \cup {Button("remove", s) : s \in Range(subjects)}

my_subjects_func(u, upd, fault) ==
    LET subjects == get_user_subjects(users, u, fault)
    IN  IF subjects = <<>>
        THEN Replies("my_subjects_command", u, upd, <<"no_subjects_yet">>, None)
        ELSE Outcome("my_subjects_command", u, upd, <<"your_subjects">>, None, NoCompletion,
                     users, user_data[u], remove_keyboard(subjects))

my_subjects_command(u, upd, fault) == login_required(u, upd, my_subjects_func(u, upd, fault))

quiz_me_func(u, upd, fault) ==
    LET subjects == get_user_subjects(users, u, fault)
    IN  IF subjects = <<>>
        THEN Replies("quiz_me_command", u, upd, <<"need_to_add_a_subject_first">>, None)
        ELSE Outcome("quiz_me_command", u, upd, <<"which_subject_quiz">>, None, NoCompletion,
                     users, user_data[u], {Button("quiz", s) : s \in Range(subjects)})

quiz_me_command(u, upd, fault) == login_required(u, upd, quiz_me_func(u, upd, fault))

\* the entry renders the keyboard without looking whether there is a subject
start_tutor_func_no_check(u, upd, fault) ==
    LET subjects == get_user_subjects(users, u, fault)
    IN  Outcome("start_tutor_session", u, upd, <<"which_subject_tutoring">>,
                T_SELECT_SUBJECT, NoCompletion,
                users, user_data[u], {Button("tutor", s) : s \in Range(subjects)})

start_tutor_func(u, upd, fault) ==
    LET subjects == get_user_subjects(users, u, fault)
    IN  IF subjects = <<>>
        THEN Replies("start_tutor_session", u, upd, <<"add_a_subject_first">>, END)
        ELSE Outcome("start_tutor_session", u, upd, <<"which_subject_tutoring">>,
                     T_SELECT_SUBJECT, NoCompletion,
                     users, user_data[u], {Button("tutor", s) : s \in Range(subjects)})

start_tutor_session(u, upd, fault) == login_required(u, upd, start_tutor_func(u, upd, fault))

(***************************************************************************)
(* Tutor conversation.                                                     *)
(***************************************************************************)
\* context.user_data.get('tutor_subject', 'this subject')
persona_subject(u) ==
    IF user_data[u].tutor_subject = Absent THEN "this subject" ELSE user_data[u].tutor_subject

\* the chat handle is put into the session as soon as the chat is started, before the
\* first question is sent
start_ai_conversation_stores_first(u, upd, fault) ==
    IF ai_model /\ fault # "ai"
    THEN Outcome("start_ai_conversation", u, upd,
                 <<"initializing", "answer", "now_chatting">>, T_TUTORING,
                 <<"start_chat", persona_subject(u)>>,
                 users, [user_data[u] EXCEPT !.chat_session = ChatSession], {})
    ELSE Outcome("start_ai_conversation", u, upd,
                 <<"initializing", "couldnt_connect">>, END,
                 IF ai_model THEN <<"start_chat", persona_subject(u)>> ELSE NoCompletion,
                 users,
                 IF ai_model THEN [user_data[u] EXCEPT !.chat_session = ChatSession]
                 ELSE user_data[u], {})

start_ai_conversation(u, upd, fault) ==
    IF ai_model /\ fault # "ai"
    THEN Outcome("start_ai_conversation", u, upd,
                 <<"initializing", "answer", "now_chatting">>, T_TUTORING,
                 <<"start_chat", persona_subject(u)>>,
                 users, [user_data[u] EXCEPT !.chat_session = ChatSession], {})
    ELSE Outcome("start_ai_conversation", u, upd,
                 <<"initializing", "couldnt_connect">>, END,
                 IF ai_model THEN <<"start_chat", persona_subject(u)>> ELSE NoCompletion,
                 users, user_data[u], {})

\* forward_to_ai and end_tutor_session are registered by main() and defined nowhere
\* in the file: they follow section 4.5 of the specification
forward_to_ai(u, upd, fault) ==
    IF user_data[u].chat_session # Absent /\ fault # "ai"
    THEN Outcome("forward_to_ai", u, upd, <<"answer">>, T_TUTORING, <<"send", "">>,
                 users, user_data[u], {})
    ELSE Outcome("forward_to_ai", u, upd, <<"ai_error">>, END,
                 IF user_data[u].chat_session # Absent THEN <<"send", "">> ELSE NoCompletion,
                 users, [user_data[u] EXCEPT !.chat_session = Absent], {})

end_tutor_session(u, upd) ==
    Outcome("end_tutor_session", u, upd, <<"session_ended_main_menu">>, END, NoCompletion,
            users, [user_data[u] EXCEPT !.tutor_subject = Absent, !.chat_session = Absent], {})

(***************************************************************************)
(* Universal inline button handler.                                        *)
(***************************************************************************)
generate_quiz_from_ai(subject_name, fault) ==
    IF ~ai_model THEN "ai_unavailable"
    ELSE IF fault = "ai" THEN "quiz_error"
    ELSE "quiz_text"

\* the handler ends the conversation whatever the session holds
button_handler_verdict_always_end(session) == END

\* the value the handler returns when its branch does not return by itself
button_handler_verdict(session) ==
    IF session.tutor_subject = Absent THEN END ELSE T_ASK_QUESTION

\* document(user_id).update(...) raises without a client, without the document,
\* and when the store fails
update_raises(u, fault) == ~db \/ ~users[u].exists \/ fault = "store"

button_handler(u, upd, fault) ==
    LET action == upd.name
        data   == upd.data
        verdict == button_handler_verdict(user_data[u])
    IN  IF action = "add"
        THEN IF update_raises(u, fault) THEN Raises("button_handler", u, upd, <<>>)
             ELSE Outcome("button_handler", u, upd, <<"added">>, verdict, NoCompletion,
                          [users EXCEPT ![u].subjects = ArrayUnion(@, data)],
                          user_data[u], {})
        ELSE IF action = "remove"
        THEN IF update_raises(u, fault) THEN Raises("button_handler", u, upd, <<>>)
             ELSE LET coll == [users EXCEPT ![u].subjects = ArrayRemove(@, data)]
                      new_subjects == get_user_subjects(coll, u, fault)
                  IN  IF new_subjects = <<>>
                      THEN Outcome("button_handler", u, upd, <<"removed_none_left">>,
                                   verdict, NoCompletion, coll, user_data[u], {})
                      ELSE Outcome("button_handler", u, upd, <<"removed_updated_list">>,
                                   verdict, NoCompletion, coll, user_data[u],
                                   remove_keyboard(new_subjects))
        ELSE IF action = "tutor"
        THEN Outcome("button_handler", u, upd, <<"ask_your_question">>, T_ASK_QUESTION, NoCompletion,
                     users, [user_data[u] EXCEPT !.tutor_subject = data], {})
        ELSE IF action = "quiz"
        THEN Outcome("button_handler", u, upd,
                     <<"generating_quiz", generate_quiz_from_ai(data, fault), "quiz_ready">>,
                     verdict, IF ai_model THEN <<"generate_content", data>> ELSE NoCompletion,
                     users, user_data[u], {})
        ELSE Replies("button_handler", u, upd, <<>>, verdict)

\* an update no handler accepts is dropped
unhandled(u, upd) == Replies("none", u, upd, <<>>, None)

(***************************************************************************)
(* The dispatcher: one update of user u, accepted by the handler that      *)
(* main() routes it to, handled to completion.                             *)
(***************************************************************************)
process_update(u, upd, out) ==
    LET route == main(u, upd)
    IN  /\ users' = out.users
        /\ user_data' = [user_data EXCEPT ![u] = out.session]
        /\ keyboards' = [keyboards EXCEPT ![u] = @ \cup out.buttons]
        /\ reg_conv' = IF route[1] = "reg_handler"
                       THEN _update_state(reg_conv, u, out.returned) ELSE reg_conv
        /\ login_conv' = IF route[1] = "login_handler"
                         THEN _update_state(login_conv, u, out.returned) ELSE login_conv
        /\ tutor_conv' = IF route[1] = "tutor_handler"
                         THEN _update_state(tutor_conv, u, out.returned) ELSE tutor_conv
        /\ UNCHANGED <<db, ai_model>>

\* the callback main() routes the update to
accepts(u, upd, callback) == main(u, upd)[2] = callback

\* the updates a user can send: commands, typed text, menu labels, rendered buttons
TextUpdates == {Text(t) : t \in Texts}
TutorEntries == {Command("tutor"), Menu(MAIN_MENU_KEYBOARD[1])}
QuizEntries == {Command("quizme"), Menu(MAIN_MENU_KEYBOARD[2])}
MySubjectsEntries == {Command("mysubjects"), Menu(MAIN_MENU_KEYBOARD[3])}
AddSubjectEntries == {Command("addsubject"), Menu(MAIN_MENU_KEYBOARD[4])}
Clicks(u) == {Callback(b) : b \in keyboards[u]}
Updates(u) == {Command(c) : c \in Commands} \cup TextUpdates \cup Clicks(u)
                \cup {Menu(MAIN_MENU_KEYBOARD[i]) : i \in 1..4}

StartCommand(u) ==
    \E upd \in {Command("start")}, fault \in {"none", "fetch"} :
        /\ accepts(u, upd, "start_command")
        /\ process_update(u, upd, start_command(u, upd, fault))

LogoutCommand(u) ==
    \E upd \in {Command("logout")} :
        /\ accepts(u, upd, "logout_command")
        /\ process_update(u, upd, logout_command(u, upd))

StartRegistration(u) ==
    \E upd \in {Command("register")} :
        /\ accepts(u, upd, "start_registration")
        /\ process_update(u, upd, start_registration(u, upd))

GetEmailAndRegister(u) ==
    \E upd \in TextUpdates, fault \in {"none", "fetch", "store"} :
        /\ accepts(u, upd, "get_email_and_register")
        /\ process_update(u, upd, get_email_and_register(u, upd, fault))

StartLogin(u) ==
    \E upd \in {Command("login")} :
        /\ accepts(u, upd, "start_login")
        /\ process_update(u, upd, start_login(u, upd))

CheckEmailAndLogin(u) ==
    \E upd \in TextUpdates, fault \in {"none", "fetch"} :
        /\ accepts(u, upd, "check_email_and_login")
        /\ process_update(u, upd, check_email_and_login(u, upd, fault))

CancelConversation(u) ==
    \E upd \in {Command("cancel")} :
        /\ accepts(u, upd, "cancel_conversation")
        /\ process_update(u, upd, cancel_conversation(u, upd))

AddSubjectCommand(u) ==
    \E upd \in AddSubjectEntries, fault \in {"none", "fetch"} :
        /\ accepts(u, upd, "add_subject_command")
        /\ process_update(u, upd, add_subject_command(u, upd, fault))

MySubjectsCommand(u) ==
    \E upd \in MySubjectsEntries, fault \in {"none", "fetch"} :
        /\ accepts(u, upd, "my_subjects_command")
        /\ process_update(u, upd, my_subjects_command(u, upd, fault))

QuizMeCommand(u) ==
    \E upd \in QuizEntries, fault \in {"none", "fetch"} :
        /\ accepts(u, upd, "quiz_me_command")
        /\ process_update(u, upd, quiz_me_command(u, upd, fault))

StartTutorSession(u) ==
    \E upd \in TutorEntries, fault \in {"none", "fetch"} :
        /\ accepts(u, upd, "start_tutor_session")
        /\ process_update(u, upd, start_tutor_session(u, upd, fault))

StartAiConversation(u) ==
    \E upd \in TextUpdates, fault \in {"none", "ai"} :
        /\ accepts(u, upd, "start_ai_conversation")
        /\ process_update(u, upd, start_ai_conversation(u, upd, fault))

ForwardToAi(u) ==
    \E upd \in TextUpdates, fault \in {"none", "ai"} :
        /\ accepts(u, upd, "forward_to_ai")
        /\ process_update(u, upd, forward_to_ai(u, upd, fault))

EndTutorSession(u) ==
    \E upd \in {Command("done")} :
        /\ accepts(u, upd, "end_tutor_session")
        /\ process_update(u, upd, end_tutor_session(u, upd))

\* a click on a rendered button: one action per kind of button
AddButton(u) ==
    \E upd \in Clicks(u), fault \in {"none", "store"} :
        /\ upd.name = "add"
        /\ accepts(u, upd, "button_handler")
        /\ process_update(u, upd, button_handler(u, upd, fault))

RemoveButton(u) ==
    \E upd \in Clicks(u), fault \in {"none", "store", "fetch"} :
        /\ upd.name = "remove"
        /\ accepts(u, upd, "button_handler")
        /\ process_update(u, upd, button_handler(u, upd, fault))

TutorButton(u) ==
    \E upd \in Clicks(u) :
        /\ upd.name = "tutor"
        /\ accepts(u, upd, "button_handler")
        /\ process_update(u, upd, button_handler(u, upd, "none"))

QuizButton(u) ==
    \E upd \in Clicks(u), fault \in {"none", "ai"} :
        /\ upd.name = "quiz"
        /\ accepts(u, upd, "button_handler")
        /\ process_update(u, upd, button_handler(u, upd, fault))

\* an update no handler accepts
Unhandled(u) ==
    \E upd \in Updates(u) :
        /\ accepts(u, upd, "none")
        /\ process_update(u, upd, unhandled(u, upd))

Init ==
    /\ db \in BOOLEAN
    /\ ai_model \in BOOLEAN
    /\ users = [u \in Users |-> NoDoc]
    /\ user_data = [u \in Users |-> EmptyUserData]
    /\ reg_conv = [u \in Users |-> END]
    /\ login_conv = [u \in Users |-> END]
    /\ tutor_conv = [u \in Users |-> END]
    /\ keyboards = [u \in Users |-> {}]

\* every user sends every update
Next ==
    \E u \in Users :
        \/ StartCommand(u)
        \/ LogoutCommand(u)
        \/ StartRegistration(u)
        \/ GetEmailAndRegister(u)
        \/ StartLogin(u)
        \/ CheckEmailAndLogin(u)
        \/ CancelConversation(u)
        \/ AddSubjectCommand(u)
        \/ MySubjectsCommand(u)
        \/ QuizMeCommand(u)
        \/ StartTutorSession(u)
        \/ StartAiConversation(u)
        \/ ForwardToAi(u)
        \/ EndTutorSession(u)
        \/ AddButton(u)
        \/ RemoveButton(u)
        \/ TutorButton(u)
        \/ QuizButton(u)
        \/ Unhandled(u)

Spec == Init /\ [][Next]_vars

\* accounts: every user registers, logs in and out, cancels
NextAccounts ==
    \E u \in Users :
        \/ StartCommand(u)
        \/ LogoutCommand(u)
        \/ StartRegistration(u)
        \/ GetEmailAndRegister(u)
        \/ StartLogin(u)
        \/ CheckEmailAndLogin(u)
        \/ CancelConversation(u)

SpecAccounts == Init /\ [][NextAccounts]_vars

\* subject management and quizzes of one student
NextSubjects ==
    \E u \in Students :
        \/ LogoutCommand(u)
        \/ StartRegistration(u)
        \/ GetEmailAndRegister(u)
        \/ StartLogin(u)
        \/ CheckEmailAndLogin(u)
        \/ AddSubjectCommand(u)
        \/ MySubjectsCommand(u)
        \/ QuizMeCommand(u)
        \/ AddButton(u)
        \/ RemoveButton(u)
        \/ QuizButton(u)

SpecSubjects == Init /\ [][NextSubjects]_vars

\* the four gated operations of one student
NextGate ==
    \E u \in Students :
        \/ LogoutCommand(u)
        \/ StartRegistration(u)
        \/ GetEmailAndRegister(u)
        \/ StartLogin(u)
        \/ CheckEmailAndLogin(u)
        \/ AddSubjectCommand(u)
        \/ MySubjectsCommand(u)
        \/ QuizMeCommand(u)
        \/ StartTutorSession(u)
        \/ AddButton(u)

SpecGate == Init /\ [][NextGate]_vars

\* the tutor conversation of one student
NextTutor ==
    \E u \in Students :
        \/ LogoutCommand(u)
        \/ StartRegistration(u)
        \/ GetEmailAndRegister(u)
        \/ StartLogin(u)
        \/ CheckEmailAndLogin(u)
        \/ CancelConversation(u)
        \/ AddSubjectCommand(u)
        \/ MySubjectsCommand(u)
        \/ StartTutorSession(u)
        \/ StartAiConversation(u)
        \/ ForwardToAi(u)
        \/ EndTutorSession(u)
        \/ AddButton(u)
        \/ RemoveButton(u)
        \/ TutorButton(u)
        \/ Unhandled(u)

SpecTutor == Init /\ [][NextTutor]_vars

\* the inline keyboards of one student: every command that renders one, every click
NextButtons ==
    \E u \in Students :
        \/ LogoutCommand(u)
        \/ StartRegistration(u)
        \/ GetEmailAndRegister(u)
        \/ StartLogin(u)
        \/ CheckEmailAndLogin(u)
        \/ AddSubjectCommand(u)
        \/ MySubjectsCommand(u)
        \/ QuizMeCommand(u)
        \/ StartTutorSession(u)
        \/ AddButton(u)
        \/ RemoveButton(u)
        \/ TutorButton(u)
        \/ QuizButton(u)

SpecButtons == Init /\ [][NextButtons]_vars

TypeOK ==
    /\ db \in BOOLEAN /\ ai_model \in BOOLEAN
    /\ \A u \in Users :
        /\ reg_conv[u] \in {END, GET_EMAIL_REG}
        /\ login_conv[u] \in {END, CHECK_EMAIL_LOGIN}
        /\ tutor_conv[u] \in {END, T_SELECT_SUBJECT, T_ASK_QUESTION, T_TUTORING}
        /\ user_data[u].is_logged_in \in BOOLEAN

(***************************************************************************)
(* Properties.                                                             *)
(***************************************************************************)
\* the conversation state a handler's return value leaves user u in
after(conv, u, out) == _update_state(conv, u, out.returned)[u]

\* e is t with every upper-case character replaced by its lower-case form
UpperChars == {"A", "B"}
IsLowerOf(e, t) ==
    /\ Len(e) = Len(t)
    /\ \A i \in 1..Len(t) :
        /\ e[i] \notin UpperChars
        /\ e[i] = t[i] \/ <<t[i], e[i]>> \in {<<"A", "a">>, <<"B", "b">>}

\* the gated operations: the registered handler, the function it wraps, the updates
\* that reach it
GatedNames == {"add_subject_command", "my_subjects_command", "quiz_me_command",
               "start_tutor_session"}
Gated(name, u, upd, fault) ==
    CASE name = "add_subject_command" -> add_subject_command(u, upd, fault)
      [] name = "my_subjects_command" -> my_subjects_command(u, upd, fault)
      [] name = "quiz_me_command"     -> quiz_me_command(u, upd, fault)
      [] name = "start_tutor_session" -> start_tutor_session(u, upd, fault)
Wrapped(name, u, upd, fault) ==
    CASE name = "add_subject_command" -> add_subject_func(u, upd, fault)
      [] name = "my_subjects_command" -> my_subjects_func(u, upd, fault)
      [] name = "quiz_me_command"     -> quiz_me_func(u, upd, fault)
      [] name = "start_tutor_session" -> start_tutor_func(u, upd, fault)
Entries(name) ==
    CASE name = "add_subject_command" -> AddSubjectEntries
      [] name = "my_subjects_command" -> MySubjectsEntries
      [] name = "quiz_me_command"     -> QuizEntries
      [] name = "start_tutor_session" -> TutorEntries

\* C1: every gated operation (add-subject, list-subjects, quiz-me, tutor entry), invoked
\* with a session whose is_logged_in flag is not set, does not run the wrapped function,
\* replies login-required, returns END and changes nothing; invoked with the flag set it
\* runs the wrapped function with the same arguments and returns its result, replies and
\* effects unchanged.
C1_GateDeniesOrPassesUnchanged ==
    \A u \in Users, name \in GatedNames, fault \in {"none", "fetch"} :
        \A upd \in Entries(name) :
            LET out   == Gated(name, u, upd, fault)
                inner == Wrapped(name, u, upd, fault)
            IN  IF user_data[u].is_logged_in
                THEN /\ out.func = name
                     /\ out.args = <<u, upd>>
                     /\ out.returned = inner.result
                     /\ out.replies = inner.replies
                     /\ out.users = inner.users
                     /\ out.session = inner.session
                     /\ out.buttons = inner.buttons
                ELSE /\ out.func = "none"
                     /\ out.replies = <<"login_required">>
                     /\ out.returned = END
                     /\ after(tutor_conv, u, out) = END
                     /\ out.users = users
                     /\ out.session = user_data[u]
                     /\ out.buttons = {}

\* a logged-in student whose tutor entry passed the gate: its result, the
\* select-subject state, reached the conversation handler
C1_Witness ==
    \E u \in Users :
        /\ user_data[u].is_logged_in
        /\ tutor_conv[u] = T_SELECT_SUBJECT
        /\ \E s \in Range(AVAILABLE_SUBJECTS) : Button("tutor", s) \in keyboards[u]

\* C2: in the login conversation's await-email state a text is handled by
\* check_email_and_login, and unless the fetch of the caller's document raises, the
\* session is authenticated afterwards iff the caller's own document exists and its email
\* is the lower-cased text; otherwise (no document, another email, an email of another
\* user's document, no store client) is_logged_in stays unset and the conversation ends.
\* A fetch that raises leaves the session as it was.
C2_LoginIffOwnProfileEmail ==
    \A u \in Users, upd \in TextUpdates, fault \in {"none", "fetch"} :
        login_conv[u] = CHECK_EMAIL_LOGIN /\ reg_conv[u] = END =>
            LET out == check_email_and_login(u, upd, fault)
                own == db /\ users[u].exists /\ IsLowerOf(users[u].email, upd.text)
            IN  /\ main(u, upd) = <<"login_handler", "check_email_and_login">>
                /\ ~user_data[u].is_logged_in
                /\ out.users = users
                /\ out.returned # Raised =>
                     /\ out.session.is_logged_in <=> own
                     /\ after(login_conv, u, out) = END
                     /\ ~own => out.session = user_data[u]
                /\ out.returned = Raised => out.session = user_data[u]

\* u1 logged in with its own email while u2 is registered with another email
C2_Witness ==
    /\ user_data["u1"].is_logged_in
    /\ login_conv["u1"] = END
    /\ users["u1"].exists /\ users["u2"].exists
    /\ users["u1"].email # users["u2"].email
    /\ ~user_data["u2"].is_logged_in /\ login_conv["u2"] = CHECK_EMAIL_LOGIN

\* C3: in the registration conversation's await-email state, if any document (of any
\* user) holds the lower-cased text as its email, no document is created or changed and
\* the conversation ends; otherwise, the store accepting the write, the caller's document
\* becomes {email: the lower-cased text, subjects: []} and the conversation ends.
C3_RegistrationRejectsTakenEmail ==
    \A u \in Users, upd \in TextUpdates, fault \in {"none", "fetch", "store"} :
        reg_conv[u] = GET_EMAIL_REG =>
            LET out   == get_email_and_register(u, upd, fault)
                taken == \E v \in Users : users[v].exists /\ IsLowerOf(users[v].email, upd.text)
            IN  /\ main(u, upd) = <<"reg_handler", "get_email_and_register">>
                /\ out.session = user_data[u]
                /\ taken => out.users = users
                /\ taken /\ out.returned # Raised =>
                     /\ out.replies = <<"already_registered">>
                     /\ after(reg_conv, u, out) = END
                /\ ~taken /\ db /\ fault = "none" =>
                     /\ out.users[u].exists
                     /\ IsLowerOf(out.users[u].email, upd.text)
                     /\ out.users[u].subjects = <<>>
                     /\ \A v \in Users \ {u} : out.users[v] = users[v]
                     /\ after(reg_conv, u, out) = END

\* both users registered, with different emails, and u2 asked for an email again
C3_Witness ==
    /\ users["u1"].exists /\ users["u2"].exists
    /\ users["u1"].email # users["u2"].email
    /\ reg_conv["u1"] = END
    /\ reg_conv["u2"] = GET_EMAIL_REG

\* how often x occurs in the array
Count(arr, x) == Cardinality({i \in DOMAIN arr : arr[i] = x})

\* arr with every occurrence of x left out, the rest in its order
Without(arr, x) == SelectSeq(arr, LAMBDA y : y # x)

AddClicks(u) == {upd \in Clicks(u) : upd.name = "add"}
RemoveClicks(u) == {upd \in Clicks(u) : upd.name = "remove"}

\* C4: an add-subject selection for s, the store accepting the update, leaves s in the
\* caller's subjects exactly once and every other subject, and every other document, as
\* it was; handled in a state where s is already there (the state a first add leaves),
\* it leaves the collection as it is: adding twice equals adding once.
C4_AddSubjectIdempotent ==
    \A u \in Students : \A upd \in AddClicks(u) :
        LET s   == upd.data
            out == button_handler(u, upd, "none")
            old == users[u].subjects
            new == out.users[u].subjects
        IN  /\ main(u, upd) = <<"application", "button_handler">>
            /\ out.returned # Raised
            /\ Count(new, s) = 1
            /\ Without(new, s) = Without(old, s)
            /\ \A x \in Range(old) : Count(old, x) = 1
            /\ out.users = [users EXCEPT ![u].subjects = new]
            /\ s \in Range(old) => out.users = users

\* a student holding both subjects, one of them still on a rendered add keyboard: the
\* first add has been handled and a second one can be
C4_Witness ==
    \E u \in Students : \E upd \in AddClicks(u) :
        /\ upd.data \in Range(users[u].subjects)
        /\ Len(users[u].subjects) = 2

\* C5: a remove-subject selection for s, the store accepting the update, raises no
\* error; for s not in the caller's subjects it leaves the collection as it is, for s in
\* them it leaves the subjects without s, the others in their order, and nothing else
\* changed.
C5_RemoveSubjectIdempotent ==
    \A u \in Students, fault \in {"none", "fetch"} : \A upd \in RemoveClicks(u) :
        LET s   == upd.data
            out == button_handler(u, upd, fault)
            old == users[u].subjects
            new == out.users[u].subjects
        IN  /\ main(u, upd) = <<"application", "button_handler">>
            /\ out.returned # Raised
            /\ out.session = user_data[u]
            /\ s \notin Range(old) => out.users = users
            /\ s \in Range(old) =>
                 /\ Count(new, s) = 0
                 /\ new = Without(old, s)
                 /\ Len(new) = Len(old) - 1
                 /\ out.users = [users EXCEPT ![u].subjects = new]

\* a student who holds one subject and has a rendered remove button of another: that
\* one was removed, and removing it again can be handled
C5_Witness ==
    \E u \in Students : \E upd \in RemoveClicks(u) :
        /\ upd.data \notin Range(users[u].subjects)
        /\ Len(users[u].subjects) = 1

\* C6: for an authenticated caller whose document has no subject, or whose subjects
\* cannot be fetched, the tutor entry and the quiz command reply add-a-subject-first and
\* render no button; the tutor entry returns END, so the tutor conversation stays
\* idle, and the quiz command leaves the conversations alone.
C6_NoSubjectsShortCircuit ==
    \A u \in Students, fault \in {"none", "fetch"} :
        user_data[u].is_logged_in /\ (users[u].subjects = <<>> \/ fault = "fetch") =>
            /\ \A upd \in TutorEntries :
                 LET out == start_tutor_session(u, upd, fault)
                 IN  /\ out.replies = <<"add_a_subject_first">>
                     /\ out.buttons = {}
                     /\ out.returned = END
                     /\ accepts(u, upd, "start_tutor_session") =>
                          /\ tutor_conv[u] = END
                          /\ after(tutor_conv, u, out) = END
                     /\ tutor_conv[u] = END => accepts(u, Command("tutor"), "start_tutor_session")
            /\ \A upd \in QuizEntries :
                 LET out == quiz_me_command(u, upd, fault)
                 IN  /\ out.replies = <<"need_to_add_a_subject_first">>
                     /\ out.buttons = {}
                     /\ out.returned = None
                     /\ out.completion = NoCompletion
                     /\ accepts(u, upd, "quiz_me_command") => main(u, upd)[1] = "application"
                     /\ accepts(u, Command("quizme"), "quiz_me_command")

\* a logged-in student without a subject who has used a gated command (the add keyboard
\* is rendered) and for whom no tutor or quiz button was ever rendered
C6_Witness ==
    \E u \in Students :
        /\ user_data[u].is_logged_in
        /\ users[u].exists /\ users[u].subjects = <<>>
        /\ tutor_conv[u] = END
        /\ keyboards[u] # {}
        /\ \A b \in keyboards[u] : b[1] \notin {"tutor", "quiz"}

\* C7: the tutor conversation only moves idle -> select-subject -> ask-question ->
\* tutoring in that order; whenever it is in tutoring the session holds the chat handle
\* and the selected subject; and in every state of the conversation the done command is
\* handled by end_tutor_session, which clears both and ends the conversation.
C7_TutorFlowOrderAndSession ==
    [][\A u \in Students :
        /\ tutor_conv'[u] = T_SELECT_SUBJECT /\ tutor_conv[u] # T_SELECT_SUBJECT
             => tutor_conv[u] = END
        /\ tutor_conv'[u] = T_ASK_QUESTION /\ tutor_conv[u] # T_ASK_QUESTION
             => tutor_conv[u] = T_SELECT_SUBJECT
        /\ tutor_conv'[u] = T_TUTORING /\ tutor_conv[u] # T_TUTORING
             => tutor_conv[u] = T_ASK_QUESTION
        /\ tutor_conv'[u] = T_TUTORING
             => /\ user_data'[u].chat_session # Absent
                /\ user_data'[u].tutor_subject # Absent
        /\ tutor_conv[u] # END
             => LET out == end_tutor_session(u, Command("done"))
                IN  /\ main(u, Command("done")) = <<"tutor_handler", "end_tutor_session">>
                    /\ out.session.chat_session = Absent
                    /\ out.session.tutor_subject = Absent
                    /\ after(tutor_conv, u, out) = END
      ]_vars

\* C8: in every non-idle state of every conversation (registration await-email, login
\* await-email, tutor select-subject, ask-question and tutoring) the cancel command is
\* handled by cancel_conversation for that conversation, which returns it to idle,
\* leaves the session without selected subject and chat handle, and leaves is_logged_in
\* as it was.
C8_CancelAcceptedInEveryFlow ==
    \A u \in Students :
        LET upd == Command("cancel")
            out == cancel_conversation(u, upd)
        IN  /\ reg_conv[u] # END =>
                 /\ main(u, upd) = <<"reg_handler", "cancel_conversation">>
                 /\ after(reg_conv, u, out) = END
            /\ reg_conv[u] = END /\ login_conv[u] # END =>
                 /\ main(u, upd) = <<"login_handler", "cancel_conversation">>
                 /\ after(login_conv, u, out) = END
            /\ reg_conv[u] = END /\ login_conv[u] = END /\ tutor_conv[u] # END =>
                 /\ main(u, upd) = <<"tutor_handler", "cancel_conversation">>
                 /\ after(tutor_conv, u, out) = END
            /\ reg_conv[u] # END \/ login_conv[u] # END \/ tutor_conv[u] # END =>
                 /\ out.session.is_logged_in = user_data[u].is_logged_in
                 /\ out.session.tutor_subject = Absent
                 /\ out.session.chat_session = Absent

\* C9: whenever the tutor conversation is in select-subject, ask-question or tutoring,
\* the session's is_logged_in flag is set.
C9_TutorStatesAreAuthenticated ==
    \A u \in Students : tutor_conv[u] # END => user_data[u].is_logged_in

\* C10: whenever the tutor conversation enters ask-question, and whenever it later enters
\* tutoring with a selected subject, the selected subject the session then holds is one
\* of the subjects of the caller's document as it then is, whatever add-subject and
\* remove-subject selections from earlier keyboards were handled in between.
C10_SelectedSubjectInProfile ==
    [][\A u \in Students :
        /\ tutor_conv'[u] = T_ASK_QUESTION /\ tutor_conv[u] # T_ASK_QUESTION
             => user_data'[u].tutor_subject \in Range(users'[u].subjects)
        /\ (/\ tutor_conv'[u] = T_TUTORING /\ tutor_conv[u] # T_TUTORING
            /\ user_data'[u].tutor_subject # Absent)
             => user_data'[u].tutor_subject \in Range(users'[u].subjects)
      ]_vars

\* the conversations of user u that are not idle
ActiveFlows(u) ==
    {c \in {"registration", "login", "tutor"} :
        \/ c = "registration" /\ reg_conv[u] # END
        \/ c = "login" /\ login_conv[u] # END
        \/ c = "tutor" /\ tutor_conv[u] # END}

\* C11: in every reachable state each user is inside at most one conversation: of the
\* registration, the login and the tutor conversation at most one is not idle.
C11_AtMostOneActiveFlow ==
    \A u \in Users : Cardinality(ActiveFlows(u)) <= 1

\* C12: once the document of a user exists it is never deleted, and its subjects change
\* only in a step that handles an add or a remove click of that user; no other step
\* (a second registration, login, logout, cancel, tutor, quiz) changes them.
C12_SubjectsChangeOnlyBySelections ==
    [][\A u \in Users :
        users[u].exists =>
            /\ users'[u].exists
            /\ (users'[u].subjects # users[u].subjects) =>
                 \E upd \in AddClicks(u) \cup RemoveClicks(u), fault \in Faults :
                     /\ accepts(u, upd, "button_handler")
                     /\ users' = button_handler(u, upd, fault).users
      ]_vars

\* the clicks of user u that the universal button handler takes: add, remove, quiz
SelectionClicks(u) ==
    {upd \in Clicks(u) : upd.name \in {"add", "remove", "quiz"}
                         /\ accepts(u, upd, "button_handler")}

\* C13: an add, remove or quiz click handled while is_logged_in is not set changes no
\* document and sends no request to the completion service.
C13_SelectionsAreGated ==
    \A u \in Users, fault \in Faults :
        ~user_data[u].is_logged_in =>
            \A upd \in SelectionClicks(u) :
                LET out == button_handler(u, upd, fault)
                IN  /\ out.users = users
                    /\ out.completion = NoCompletion

handle_update(u, upd, fault) ==
    LET callback == main(u, upd)[2]
    IN  CASE callback = "start_command"          -> start_command(u, upd, fault)
          [] callback = "logout_command"         -> logout_command(u, upd)
          [] callback = "start_registration"     -> start_registration(u, upd)
          [] callback = "get_email_and_register" -> get_email_and_register(u, upd, fault)
          [] callback = "start_login"            -> start_login(u, upd)
          [] callback = "check_email_and_login"  -> check_email_and_login(u, upd, fault)
          [] callback = "cancel_conversation"    -> cancel_conversation(u, upd)
          [] callback = "add_subject_command"    -> add_subject_command(u, upd, fault)
          [] callback = "my_subjects_command"    -> my_subjects_command(u, upd, fault)
          [] callback = "quiz_me_command"        -> quiz_me_command(u, upd, fault)
          [] callback = "start_tutor_session"    -> start_tutor_session(u, upd, fault)
          [] callback = "start_ai_conversation"  -> start_ai_conversation(u, upd, fault)
          [] callback = "forward_to_ai"          -> forward_to_ai(u, upd, fault)
          [] callback = "end_tutor_session"      -> end_tutor_session(u, upd)
          [] callback = "button_handler"         -> button_handler(u, upd, fault)
          [] OTHER                               -> unhandled(u, upd)

\* the callbacks that call the store or the completion service: registration lookup and
\* create, login fetch, subject fetch, add and remove update, quiz generation, tutor chat
FailingCallbacks ==
    {"get_email_and_register", "check_email_and_login", "add_subject_command",
     "my_subjects_command", "quiz_me_command", "start_tutor_session",
     "start_ai_conversation", "forward_to_ai", "button_handler"}

\* C15: whatever fails while one of these callbacks handles an update (the store on a
\* lookup, a fetch, a write or an update, the completion service on a quiz or a chat),
\* the callback does not end with an exception and it sends a reply.
C15_EveryFailureEndsInReply ==
    \A u \in Students, fault \in Faults :
        \A upd \in Updates(u) :
            main(u, upd)[2] \in FailingCallbacks =>
                LET out == handle_update(u, upd, fault)
                IN  /\ out.returned # Raised
                    /\ out.replies # <<>>

\* the commands of the gated operations and the callback each is registered for
GatedCommands ==
    {<<"addsubject", "add_subject_command">>, <<"mysubjects", "my_subjects_command">>,
     <<"quizme", "quiz_me_command">>, <<"tutor", "start_tutor_session">>}

\* C16: in every state the logout command is handled by logout_command and leaves the
\* session without is_logged_in, selected subject and chat handle; and while
\* is_logged_in is not set (from a logout until the next successful login) each gated
\* command is handled by its gated callback, which replies login-required and does
\* nothing else.
C16_LogoutClearsSessionAndGates ==
    \A u \in Students :
        /\ main(u, Command("logout")) = <<"application", "logout_command">>
        /\ LET out == logout_command(u, Command("logout"))
           IN  /\ ~out.session.is_logged_in
               /\ out.session.tutor_subject = Absent
               /\ out.session.chat_session = Absent
        /\ ~user_data[u].is_logged_in =>
             \A c \in GatedCommands, fault \in {"none", "fetch"} :
                 LET upd == Command(c[1])
                     out == handle_update(u, upd, fault)
                 IN  /\ main(u, upd)[2] = c[2]
                     /\ out.replies = <<"login_required">>
                     /\ out.users = users /\ out.session = user_data[u]
                     /\ out.buttons = {}

\* C17: button_handler, having handled an add, a remove or a quiz click (the store
\* accepting the update), returns END exactly when the session holds no tutor_subject and
\* T_ASK_QUESTION otherwise, and leaves the session as it was; having handled a tutor
\* click it has put the click's subject into the session as tutor_subject and returns
\* T_ASK_QUESTION.
C17_DispatcherVerdict ==
    \A u \in Students, fault \in {"none", "fetch", "ai"} :
        \A upd \in Clicks(u) :
            accepts(u, upd, "button_handler") =>
                LET out == button_handler(u, upd, fault)
                IN  /\ (upd.name \in {"add", "remove", "quiz"} /\ out.result # Raised) =>
                         /\ out.session = user_data[u]
                         /\ out.result \in {END, T_ASK_QUESTION}
                         /\ out.result = END <=> user_data[u].tutor_subject = Absent
                    /\ upd.name = "tutor" =>
                         /\ out.session.tutor_subject = upd.data
                         /\ out.result = T_ASK_QUESTION
                         /\ after(tutor_conv, u, out) = T_ASK_QUESTION

\* u1 selected a tutor subject and has an add, a remove and a quiz button on screen
C17_Witness ==
    /\ tutor_conv["u1"] = T_ASK_QUESTION
    /\ user_data["u1"].tutor_subject # Absent
    /\ \A a \in {"add", "remove", "quiz"} :
         \E upd \in SelectionClicks("u1") : upd.name = a

\* C18: clicks carrying only what rendered keyboards hold, in every reachable state the
\* subjects of every document are subjects of AVAILABLE_SUBJECTS, and so are the subject
\* of every rendered button, the subject of every quiz request sent to the completion
\* service and the tutor_subject of every session.
C18_SubjectsWithinCatalog ==
    \A u \in Users :
        /\ Range(users[u].subjects) \subseteq Range(AVAILABLE_SUBJECTS)
        /\ user_data[u].tutor_subject \in Range(AVAILABLE_SUBJECTS) \cup {Absent}
        /\ \A b \in keyboards[u] :
             b[1] \in {"add", "remove", "quiz", "tutor"} => b[2] \in Range(AVAILABLE_SUBJECTS)
        /\ \A upd \in SelectionClicks(u), fault \in {"none", "ai"} :
             upd.name = "quiz" =>
                 LET out == button_handler(u, upd, fault)
                 IN  out.completion \in
                       {NoCompletion} \cup {<<"generate_content", s>> : s \in Range(AVAILABLE_SUBJECTS)}

\* u1 has added a subject, selected a tutor subject and has a quiz button on screen
C18_Witness ==
    /\ users["u1"].subjects # <<>>
    /\ user_data["u1"].tutor_subject # Absent
    /\ \E upd \in SelectionClicks("u1") : upd.name = "quiz"

\* C19: in every reachable state in which the tutor conversation is in tutoring, the
\* session holds a chat handle and a selected subject.
C19_TutoringHoldsHandleAndSubject ==
    \A u \in Students :
        tutor_conv[u] = T_TUTORING =>
            /\ user_data[u].chat_session # Absent
            /\ user_data[u].tutor_subject # Absent

\* C20: in every reachable state no two documents of different users hold the same
\* email, whatever the users register, a second registration of a user under another
\* email included.
C20_EmailsAreUnique ==
    \A u, v \in Users :
        (u # v /\ users[u].exists /\ users[v].exists) => users[u].email # users[v].email

\* both users are registered, under different emails, and u1 has started a registration
\* again and is asked for an email
C20_Witness ==
    /\ users["u1"].exists /\ users["u2"].exists
    /\ users["u1"].email = <<"b">> /\ users["u2"].email = <<"a">>
    /\ reg_conv["u1"] = GET_EMAIL_REG /\ reg_conv["u2"] = END

=============================================================================
